---- MODULE Spec2Model ----
(***************************************************************************)
(* A model of the TikTok downloader relay of src/main.py: the Flask route  *)
(* handlers, TikTokAPI.get_video_info with its endpoint fallback loop and  *)
(* alternate provider, the response mapping of /info, the thumbnail        *)
(* quality selection, sanitize_filename, and the streaming generators.     *)
(*                                                                         *)
(* Strings the code inspects (urls, quality, titles, filenames) are        *)
(* sequences of one-character strings; strings it only passes on (error    *)
(* texts, endpoint addresses) are TLA+ strings.  A Python/JSON value is a  *)
(* record tagged by t: None, a str, a dict, or Absent for a key a dict     *)
(* does not hold.                                                          *)
(***************************************************************************)
EXTENDS Integers, Sequences, FiniteSets, TLC

(***************************** bounds **************************************)
\* A provider payload differs from the fully populated one in at most this
\* many fields.
MaxDeviations == 1
\* Upstream media bodies hold at most this many chunks.
MaxChunks == 2
\* Sanitizer inputs: every string over SanAlphabet up to this length ...
MaxTitleLen == 3
\* ... and runs of one character of length MaxNameLen - 1 .. MaxNameLen + MaxPad.
MaxPad == 1

(***************************** values **************************************)
None == [t |-> "none"]
Absent == [t |-> "absent"]
Str(s) == [t |-> "str", s |-> s]
Dict(uid) == [t |-> "dict", unique_id |-> uid]

\* Python truthiness of a value: None, "" and {} are falsy.
Truthy(v) ==
    CASE v.t = "str" -> v.s # << >>
      [] v.t = "dict" -> \E k \in DOMAIN v \ {"t"} : v[k] # Absent
      [] OTHER -> FALSE

\* dict.get(k): None for a missing key.   dict.get(k, default): the default.
Get(d, k) == IF d[k] = Absent THEN None ELSE d[k]
GetOr(d, k, default) == IF d[k] = Absent THEN default ELSE d[k]

Min(a, b) == IF a < b THEN a ELSE b

\* sub in s, for strings as character sequences
Contains(s, sub) ==
    \E i \in 0..(Len(s) - Len(sub)) : SubSeq(s, i + 1, i + Len(sub)) = sub
StartsWith(s, pre) == Len(s) >= Len(pre) /\ SubSeq(s, 1, Len(pre)) = pre

UpperChars == <<"A", "B", "C", "D", "E", "F", "G", "H", "I", "J", "K", "L", "M",
                "N", "O", "P", "Q", "R", "S", "T", "U", "V", "W", "X", "Y", "Z">>
LowerChars == <<"a", "b", "c", "d", "e", "f", "g", "h", "i", "j", "k", "l", "m",
                "n", "o", "p", "q", "r", "s", "t", "u", "v", "w", "x", "y", "z">>
LowerChar(c) ==
    IF \E i \in 1..Len(UpperChars) : UpperChars[i] = c
    THEN LowerChars[CHOOSE i \in 1..Len(UpperChars) : UpperChars[i] = c]
    ELSE c
\* str.lower()
Lower(s) == [i \in 1..Len(s) |-> LowerChar(s[i])]

(************************** string literals *******************************)
S_https == <<"h", "t", "t", "p", "s", ":", "/", "/">>
S_http == <<"h", "t", "t", "p", ":", "/", "/">>
S_tiktok == <<"t", "i", "k", "t", "o", "k", ".", "c", "o", "m">>
S_vm == <<"v", "m", ".", "t", "i", "k", "t", "o", "k", ".", "c", "o", "m">>
S_vt == <<"v", "t", ".", "t", "i", "k", "t", "o", "k", ".", "c", "o", "m">>
S_t == <<"t", "i", "k", "t", "o", "k", ".", "c", "o", "m", "/", "t", "/">>
S_high == <<"h", "i", "g", "h">>
S_medium == <<"m", "e", "d", "i", "u", "m">>
S_low == <<"l", "o", "w">>
S_unknown == <<"u", "n", "k", "n", "o", "w", "n">>
S_TikTokVideo == <<"T", "i", "k", "T", "o", "k", " ", "V", "i", "d", "e", "o">>
S_TikTokAudio == <<"T", "i", "k", "T", "o", "k", " ", "A", "u", "d", "i", "o">>
S_TikTokThumbnail == <<"T", "i", "k", "T", "o", "k", " ", "T", "h", "u", "m", "b", "n", "a", "i", "l">>
S_mp4 == <<".", "m", "p", "4">>
S_mp3 == <<".", "m", "p", "3">>
S_jpg == <<".", "j", "p", "g">>

(************************** sanitize_filename ******************************)
invalid_chars == <<"<", ">", ":", "\"", "/", "\\", "|", "?", "*">>
InvalidCharSet == {invalid_chars[i] : i \in 1..Len(invalid_chars)}
MaxNameLen == 100

\* for char in invalid_chars: filename = filename.replace(char, '_')
ReplaceInvalid(s) ==
    [i \in 1..Len(s) |-> IF s[i] \in InvalidCharSet THEN "_" ELSE s[i]]
\* return filename[:100]
sanitize_filename(filename) ==
    SubSeq(ReplaceInvalid(filename), 1, Min(Len(filename), MaxNameLen))

(***************************** inputs **************************************)
UrlLong == S_https \o <<"w", "w", "w", ".">> \o S_tiktok \o <<"/", "@", "u", "/", "v", "i", "d", "e", "o", "/", "7">>
UrlNoScheme == <<"w", "w", "w", ".">> \o S_tiktok \o <<"/", "@", "u", "/", "v", "i", "d", "e", "o", "/", "7">>
UrlShort == S_https \o S_vm \o <<"/", "Z", "x", "/">>
UrlOther == S_https \o <<"e", "x", "a", "m", "p", "l", "e", ".", "c", "o", "m", "/", "v", "/", "7">>

UrlArgs == {Absent, Str(<< >>), Str(UrlLong), Str(UrlNoScheme), Str(UrlShort), Str(UrlOther)}
QualityArgs == {Absent, Str(<< >>), Str(S_high), Str(<<"M", "e", "d", "i", "u", "m">>),
                Str(<<"L", "O", "W">>), Str(<<"b", "e", "s", "t">>)}

UrlRoutes == {"/info", "/download/video", "/download/audio", "/download/thumbnail", "/thumbnails"}
\* the @app.route registrations
RegisteredRoutes == UrlRoutes \cup {"/", "/test"}
Paths == RegisteredRoutes \cup {"/health", "/favicon.ico"}

\* request.args; only /download/thumbnail reads quality, so only it is sent one
Requests ==
    {r \in [path : Paths, url : UrlArgs, quality : QualityArgs] :
        /\ r.path # "/download/thumbnail" => r.quality = Absent
        /\ r.path \notin UrlRoutes \cup {"/test"} => r.url = Absent}

PayloadFields == {"id", "title", "author", "play", "music", "cover", "origin_cover", "dynamic_cover"}
FullPayload ==
    [t |-> "dict", id |-> Str(<<"7">>), title |-> Str(<<"a", "/", "b">>),
     author |-> Dict(Str(<<"u">>)), play |-> Str(<<"P">>), music |-> Str(<<"M">>),
     cover |-> Str(<<"C">>), origin_cover |-> Str(<<"O">>), dynamic_cover |-> Str(<<"D">>)]
Falsy == {Absent, None, Str(<< >>)}
Deviations(p, full, fields) == Cardinality({k \in fields : p[k] # full[k]})
\* the data objects a primary endpoint may answer with
Payloads == {q : q \in
    {p \in [t : {"dict"}, id : {FullPayload.id, Absent},
            title : {FullPayload.title, Absent, None},
            author : {FullPayload.author, Absent, None},
            play : {FullPayload.play} \cup Falsy, music : {FullPayload.music} \cup Falsy,
            cover : {FullPayload.cover} \cup Falsy,
            origin_cover : {FullPayload.origin_cover} \cup Falsy,
            dynamic_cover : {FullPayload.dynamic_cover} \cup Falsy] :
        Deviations(p, FullPayload, PayloadFields) <= MaxDeviations}}

\* what a GET to a primary endpoint may produce
EmptyPayload ==
    [t |-> "dict", id |-> Absent, title |-> Absent, author |-> Absent, play |-> Absent,
     music |-> Absent, cover |-> Absent, origin_cover |-> Absent, dynamic_cover |-> Absent]
PrimaryResponses ==
    {[kind |-> "transport_error"], [kind |-> "http_error"], [kind |-> "malformed_json"]}
    \cup [kind : {"json"}, code : {-1, 1}, data : {Absent, None, FullPayload}]
    \cup [kind : {"json"}, code : {0}, data : Payloads \cup {Absent, None, EmptyPayload}]

AltFields == {"id", "title", "author", "stats", "video_url", "audio_url", "thumbnail"}
FullAltData ==
    [t |-> "dict", id |-> Str(<<"7">>), title |-> Str(<<"a", "/", "b">>),
     author |-> [t |-> "dict", username |-> Str(<<"u">>)],
     stats |-> [t |-> "dict", views |-> Str(<<"1">>)],
     video_url |-> Str(<<"P">>), audio_url |-> Str(<<"M">>), thumbnail |-> Str(<<"C">>)]
EmptyAltData ==
    [t |-> "dict", id |-> Absent, title |-> Absent, author |-> Absent, stats |-> Absent,
     video_url |-> Absent, audio_url |-> Absent, thumbnail |-> Absent]
AltDatas == {q : q \in
    {d \in [t : {"dict"}, id : {FullAltData.id, Absent, None},
            title : {FullAltData.title, Absent, None},
            author : {FullAltData.author, Absent, None},
            stats : {FullAltData.stats, Absent, None},
            video_url : {FullAltData.video_url, Absent, None},
            audio_url : {FullAltData.audio_url, Absent, None},
            thumbnail : {FullAltData.thumbnail, Absent, None}] :
        Deviations(d, FullAltData, AltFields) <= MaxDeviations}}
\* what the POST to the alternate provider may produce
AltResponses ==
    {[kind |-> "transport_error"]}
    \cup [kind : {"malformed_json"}, status_code : {200, 500}]
    \cup [kind : {"json"}, status_code : {500}, success : {TRUE}, data : {FullAltData}]
    \cup [kind : {"json"}, status_code : {200}, success : {FALSE}, data : {Absent, FullAltData}]
    \cup [kind : {"json"}, status_code : {200}, success : {TRUE},
          data : AltDatas \cup {Absent, None}]
\* what the HEAD request of normalize_url may produce
HeadResults == {[ok |-> FALSE], [ok |-> TRUE, url |-> UrlLong]}

Chunks == {<< >>, <<"a">>, <<"b">>}
RECURSIVE SeqsUpTo(_, _)
SeqsUpTo(S, n) ==
    IF n = 0 THEN {<< >>}
    ELSE LET shorter == SeqsUpTo(S, n - 1)
         IN  shorter \cup {Append(q, x) : q \in shorter, x \in S}
\* the chunk sequences iter_content may deliver
Bodies == SeqsUpTo(Chunks, MaxChunks)

(***************************** state ***************************************)
VARIABLES
    api_endpoints,   \* tiktok_api.api_endpoints
    headers,         \* tiktok_api.headers
    pc,              \* where the one request in flight stands
    request,         \* flask.request: path and args
    normalized_url,  \* get_video_info's normalized_url
    idx,             \* position of get_video_info's for loop in api_endpoints
    contacted,       \* every network request sent while handling the request, in order
    lastResponse,    \* what the latest provider contacted answered
    video_info,      \* the handler's video_info
    media_url,       \* video_url / audio_url / thumbnail_url captured by generate()
    title,           \* the title handed to sanitize_filename
    safe_title,      \* what sanitize_filename returned
    response,        \* the response handed to the client
    upstream,        \* chunks the media connection has still to deliver
    sent,            \* chunks generate() has yielded to the client
    test_video_id,        \* test_api's test_video_id
    parked           \* the context of the request another server thread is handling

vars == <<api_endpoints, headers, pc, request, normalized_url, idx, contacted,
          lastResponse, video_info, media_url, title, safe_title, response,
          upstream, sent, test_video_id, parked>>

config == <<api_endpoints, headers>>
locals == <<normalized_url, idx, contacted, lastResponse, video_info, media_url,
            title, safe_title, upstream, sent>>

alt_api == "https://tikmate.online/api/v1/video/details"
HeadContact == "HEAD"
MediaContact == "MEDIA"
NoResponse == [status |-> 0]
NoProviderResponse == [kind |-> "none"]
NoRequest == [path |-> "", url |-> Absent, quality |-> Absent]
\* a server thread with no request in hand
IdleContext ==
    [pc |-> "idle", request |-> NoRequest, normalized_url |-> << >>, idx |-> 0,
     contacted |-> << >>, lastResponse |-> NoProviderResponse, video_info |-> None,
     media_url |-> None, title |-> None, safe_title |-> None, response |-> NoResponse,
     upstream |-> << >>, sent |-> << >>, test_video_id |-> None]

\* TikTokAPI.__init__, and no request received yet
Init ==
    /\ api_endpoints = <<"https://tikwm.com/api/", "https://www.tikwm.com/api/",
                         "https://api.tikwm.com/api/">>
    /\ headers = [User_Agent |-> "Mozilla/5.0"]
    /\ pc = "idle"
    /\ request = NoRequest
    /\ normalized_url = << >>
    /\ idx = 0
    /\ contacted = << >>
    /\ lastResponse = NoProviderResponse
    /\ video_info = None
    /\ media_url = None
    /\ title = None
    /\ safe_title = None
    /\ response = NoResponse
    /\ upstream = << >>
    /\ sent = << >>
    /\ test_video_id = None
    /\ parked = IdleContext

(************************* responses ***************************************)
JsonResponse(status, body) ==
    [status |-> status, mimetype |-> "application/json", body |-> body]
ErrorBody(error, message) == [error |-> error, message |-> message]
MissingUrlResponse ==
    JsonResponse(400, ErrorBody("Missing 'url' parameter", "Please provide a TikTok URL"))
InvalidUrlResponse ==
    JsonResponse(400, ErrorBody("Invalid TikTok URL", "Please provide a valid TikTok URL"))
LookupFailedResponse ==
    JsonResponse(404, ErrorBody("Failed to fetch video information",
                                "Invalid URL or video not accessible"))
\* a Response around generate(): status 200, headers set, body not yet produced
StreamResponse(mimetype, filename) ==
    [status |-> 200, mimetype |-> mimetype, filename |-> filename, body |-> "stream"]

(************************* request entry ***********************************)
\* the server takes a request when it is idle; the handler starts with fresh locals
Fresh ==
    /\ pc = "idle"
    /\ normalized_url' = << >>
    /\ idx' = 0
    /\ lastResponse' = NoProviderResponse
    /\ video_info' = None
    /\ media_url' = None
    /\ title' = None
    /\ safe_title' = None
    /\ upstream' = << >>
    /\ sent' = << >>
    /\ UNCHANGED parked

\* if not url: (url = request.args.get('url'))
MissingUrlNoneOnly(r) == r.url = Absent
MissingUrl(r) == ~Truthy(Get(r, "url"))

\* 'tiktok.com' not in url and 'vm.tiktok.com' not in url and 'vt.tiktok.com' not in url
InvalidUrl(r) ==
    /\ ~Contains(r.url.s, S_tiktok)
    /\ ~Contains(r.url.s, S_vm)
    /\ ~Contains(r.url.s, S_vt)

\* home()
Home ==
    /\ Fresh
    /\ \E r \in Requests :
        /\ r.path = "/"
        /\ request' = r
    /\ contacted' = << >>
    /\ response' = JsonResponse(200, [name |-> "TikTok Downloader API", version |-> "1.0",
                                      cors_enabled |-> TRUE])
    /\ pc' = "done"
    /\ test_video_id' = None
    /\ UNCHANGED config

\* a path no @app.route registers: Flask raises NotFound, not_found(error) answers
NotFound ==
    /\ Fresh
    /\ \E r \in Requests :
        /\ r.path \notin RegisteredRoutes
        /\ request' = r
    /\ contacted' = << >>
    /\ response' = JsonResponse(404, ErrorBody("Endpoint not found",
                                "Please check the API documentation at '/'"))
    /\ pc' = "done"
    /\ test_video_id' = None
    /\ UNCHANGED config

\* the head of get_info(): up to the call of tiktok_api.get_video_info(url)
GetInfoEntry ==
    /\ Fresh
    /\ \E r \in Requests :
        /\ r.path = "/info"
        /\ request' = r
        /\ IF MissingUrl(r)
           THEN response' = MissingUrlResponse /\ pc' = "done"
           ELSE IF InvalidUrl(r)
           THEN response' = InvalidUrlResponse /\ pc' = "done"
           ELSE response' = NoResponse /\ pc' = "normalize"
    /\ contacted' = << >>
    /\ test_video_id' = None
    /\ UNCHANGED config

\* the head of download_video(), download_audio(), download_thumbnail() and
\* get_thumbnails(): up to the call of tiktok_api.get_video_info(url)
UrlRouteEntry(path) ==
    /\ Fresh
    /\ \E r \in Requests :
        /\ r.path = path
        /\ request' = r
        /\ IF MissingUrl(r)
           THEN response' = MissingUrlResponse /\ pc' = "done"
           ELSE response' = NoResponse /\ pc' = "normalize"
    /\ contacted' = << >>
    /\ test_video_id' = None
    /\ UNCHANGED config

DownloadVideoEntry == UrlRouteEntry("/download/video")
DownloadAudioEntry == UrlRouteEntry("/download/audio")
DownloadThumbnailEntry == UrlRouteEntry("/download/thumbnail")
GetThumbnailsEntry == UrlRouteEntry("/thumbnails")

(************************* get_video_info **********************************)
IsShortUrl(url) == Contains(url, S_vm) \/ Contains(url, S_vt) \/ Contains(url, S_t)
EnsureProtocol(url) ==
    IF StartsWith(url, S_http) \/ StartsWith(url, S_https) THEN url ELSE S_https \o url
\* TikTokAPI.normalize_url, head being the outcome of its HEAD request
normalize_url(url, head) ==
    EnsureProtocol(IF IsShortUrl(url) /\ head.ok THEN head.url ELSE url)

\* normalized_url = self.normalize_url(url), and the for loop is entered
NormalizeUrl ==
    /\ pc = "normalize"
    /\ \E head \in HeadResults :
        /\ ~IsShortUrl(request.url.s) => ~head.ok
        /\ normalized_url' = normalize_url(request.url.s, head)
    /\ contacted' = IF IsShortUrl(request.url.s)
                    THEN Append(contacted, HeadContact) ELSE contacted
    /\ idx' = 1
    /\ pc' = IF Len(api_endpoints) >= 1 THEN "try" ELSE "alt"
    /\ UNCHANGED <<config, test_video_id, parked, request, lastResponse, video_info, media_url, title,
                   safe_title, response, upstream, sent>>

\* if data.get('code') == 0 and data.get('data'): return data.get('data')
EndpointReturnsAnyCode0(resp) == resp.kind = "json" /\ resp.code = 0
EndpointReturns(resp) ==
    /\ resp.kind = "json"
    /\ resp.code = 0
    /\ Truthy(Get(resp, "data"))

\* the for loop's step to the next api_url
NextIdxSkipping(i) == i + 2
NextIdx(i) == i + 1

\* one iteration of the for loop of get_video_info
TryEndpoint ==
    /\ pc = "try"
    /\ idx <= Len(api_endpoints)
    /\ \E resp \in PrimaryResponses :
        /\ lastResponse' = resp
        /\ IF EndpointReturns(resp)
           THEN /\ video_info' = Get(resp, "data")
                /\ pc' = "got"
                /\ idx' = idx
           ELSE /\ video_info' = video_info
                /\ idx' = NextIdx(idx)
                /\ pc' = IF NextIdx(idx) <= Len(api_endpoints) THEN "try" ELSE "alt"
    /\ contacted' = Append(contacted, api_endpoints[idx])
    /\ UNCHANGED <<config, test_video_id, parked, request, normalized_url, media_url, title, safe_title,
                   response, upstream, sent>>

\* format_alternative_data raises AttributeError on data.get / data.get(..).get:
\* data is null, or author or stats is present and null
FormatRaises(data) ==
    \/ data.t # "dict"
    \/ GetOr(data, "author", EmptyAltData).t # "dict"
    \/ GetOr(data, "stats", EmptyAltData).t # "dict"

\* TikTokAPI.format_alternative_data (the fields the handlers read)
format_alternative_data(data) ==
    [t |-> "dict",
     id |-> Get(data, "id"),
     title |-> GetOr(data, "title", Str(<< >>)),
     author |-> Dict(IF data.author = Absent THEN None ELSE Get(data.author, "username")),
     play |-> Get(data, "video_url"),
     music |-> Get(data, "audio_url"),
     cover |-> Get(data, "thumbnail"),
     origin_cover |-> Get(data, "thumbnail"),
     dynamic_cover |-> Get(data, "thumbnail")]

\* if response.status_code == 200: data = response.json(); if data.get('success'):
AltSucceedsAnyStatus(resp) == resp.kind = "json" /\ resp.success
AltSucceeds(resp) ==
    /\ resp.kind = "json"
    /\ resp.status_code = 200
    /\ resp.success

\* what get_video_info_alternative returns for a response
AltResult(resp) ==
    IF AltSucceeds(resp) /\ ~FormatRaises(GetOr(resp, "data", EmptyAltData))
    THEN format_alternative_data(GetOr(resp, "data", EmptyAltData))
    ELSE None

\* return self.get_video_info_alternative(normalized_url)
TryAlternative ==
    /\ pc = "alt"
    /\ \E resp \in AltResponses :
        /\ lastResponse' = resp
        /\ video_info' = AltResult(resp)
    /\ contacted' = Append(contacted, alt_api)
    /\ pc' = "got"
    /\ UNCHANGED <<config, test_video_id, parked, request, normalized_url, idx, media_url, title, safe_title,
                   response, upstream, sent>>

(************************* after the lookup *********************************)
\* video_info.get('author', {}) followed by .get(...) raises when author is null
AuthorOf(info) == GetOr(info, "author", Dict(Absent))
AuthorRaises(info) == AuthorOf(info).t # "dict"

\* bool(video_info.get(field))
HasMediaIfPresent(info, field) == info[field] # Absent
HasMedia(info, field) == Truthy(Get(info, field))

\* the rest of get_info()
GetInfoFinish ==
    /\ pc = "got"
    /\ request.path = "/info"
    /\ response' =
        IF ~Truthy(video_info)
        THEN JsonResponse(404,
                [error |-> "Failed to fetch video information",
                 message |-> "The video might be private, deleted, or the URL is invalid. Please check the URL and try again.",
                 troubleshooting |-> "tips"])
        ELSE IF AuthorRaises(video_info)
        THEN JsonResponse(500,
                [error |-> "Internal server error",
                 message |-> "'NoneType' object has no attribute 'get'",
                 debug_info |-> "Check server logs for more details"])
        ELSE JsonResponse(200,
                [success |-> TRUE,
                 data |-> [id |-> Get(video_info, "id"),
                           title |-> Get(video_info, "title"),
                           author |-> [username |-> Get(AuthorOf(video_info), "unique_id")],
                           has_video |-> HasMedia(video_info, "play"),
                           has_audio |-> HasMedia(video_info, "music"),
                           thumbnails |-> [cover |-> Get(video_info, "cover"),
                                           origin_cover |-> Get(video_info, "origin_cover"),
                                           dynamic_cover |-> Get(video_info, "dynamic_cover")]]])
    /\ pc' = "done"
    /\ UNCHANGED <<config, test_video_id, parked, request, locals>>

\* the rest of get_thumbnails()
GetThumbnailsFinish ==
    /\ pc = "got"
    /\ request.path = "/thumbnails"
    /\ response' =
        IF ~Truthy(video_info)
        THEN LookupFailedResponse
        ELSE JsonResponse(200,
                [success |-> TRUE,
                 data |-> [cover |-> Get(video_info, "cover"),
                           origin_cover |-> Get(video_info, "origin_cover"),
                           dynamic_cover |-> Get(video_info, "dynamic_cover")]])
    /\ pc' = "done"
    /\ UNCHANGED <<config, test_video_id, parked, request, locals>>

\* quality = request.args.get('quality', 'high').lower()
QualityOf(r) == Lower(GetOr(r, "quality", Str(S_high)).s)

\* the if/elif chain of download_thumbnail that picks the payload field
ThumbnailFieldAlwaysCover(quality) == "cover"
ThumbnailField(quality) ==
    IF quality = S_high THEN "cover"
    ELSE IF quality = S_medium THEN "origin_cover"
    ELSE IF quality = S_low THEN "dynamic_cover"
    ELSE "cover"

\* an f-string's rendering of a value
Fmt(v) == IF v.t = "str" THEN v.s ELSE <<"N", "o", "n", "e">>

\* if not video_url: / if not audio_url: / if not thumbnail_url:
NoMediaOnlyNone(url) == url = None
NoMedia(url) == ~Truthy(url)

\* the rest of a download handler: field is the payload key of the media url
DownloadFinish(path, field, defaultTitle, suffix, mimetype, notFound, failed) ==
    /\ pc = "got"
    /\ request.path = path
    /\ LET url == Get(video_info, field)
           t == GetOr(video_info, "title", Str(defaultTitle))
           video_id == GetOr(video_info, "id", Str(S_unknown))
       IN  IF ~Truthy(video_info)
           THEN /\ response' = LookupFailedResponse
                /\ pc' = "done"
                /\ UNCHANGED <<media_url, title, safe_title>>
           ELSE IF NoMedia(url)
           THEN /\ response' = JsonResponse(404, notFound)
                /\ media_url' = url
                /\ pc' = "done"
                /\ UNCHANGED <<title, safe_title>>
           ELSE IF AuthorRaises(video_info) \/ t.t # "str"
           THEN \* AttributeError from .get on None, or from None.replace
                /\ response' = JsonResponse(500, failed)
                /\ media_url' = url
                /\ title' = t
                /\ pc' = "done"
                /\ UNCHANGED safe_title
           ELSE /\ media_url' = url
                /\ title' = t
                /\ safe_title' = Str(sanitize_filename(t.s))
                /\ response' = StreamResponse(mimetype,
                       Fmt(GetOr(AuthorOf(video_info), "unique_id", Str(S_unknown)))
                       \o <<"_">> \o sanitize_filename(t.s) \o <<"_">> \o Fmt(video_id)
                       \o suffix)
                /\ pc' = "stream"
    /\ UNCHANGED <<config, test_video_id, parked, request, normalized_url, idx, contacted, lastResponse,
                   video_info, upstream, sent>>

\* the rest of download_video()
DownloadVideoFinish ==
    DownloadFinish("/download/video", "play", S_TikTokVideo, S_mp4, "video/mp4",
        ErrorBody("Video URL not found", "This video may not be available for download"),
        ErrorBody("Download failed", "'NoneType' object has no attribute"))

\* the rest of download_audio()
DownloadAudioFinish ==
    DownloadFinish("/download/audio", "music", S_TikTokAudio, S_mp3, "audio/mpeg",
        ErrorBody("Audio URL not found", "This video may not have extractable audio"),
        ErrorBody("Download failed", "'NoneType' object has no attribute"))

\* the rest of download_thumbnail()
DownloadThumbnailFinish ==
    DownloadFinish("/download/thumbnail", ThumbnailField(QualityOf(request)),
        S_TikTokThumbnail, <<"_">> \o QualityOf(request) \o S_jpg, "image/jpeg",
        ErrorBody("Thumbnail URL not found", "This video may not have available thumbnails"),
        ErrorBody("Thumbnail download failed", "'NoneType' object has no attribute"))

(************************* extract_video_id ********************************)
\* re character classes, over ASCII: \d, \w and [\w.-]
Digits == {"0", "1", "2", "3", "4", "5", "6", "7", "8", "9"}
WordChars ==
    Digits \cup {"_"} \cup {UpperChars[i] : i \in 1..Len(UpperChars)}
           \cup {LowerChars[i] : i \in 1..Len(LowerChars)}
UserChars == WordChars \cup {".", "-"}

\* A position is the index of the next character to read. Each piece of a
\* pattern gives, for a position, the positions the matcher can go on from,
\* in the order the backtracking matcher tries them.
\* a literal
Lit(s, lit, i) ==
    IF i + Len(lit) - 1 <= Len(s) /\ SubSeq(s, i, i + Len(lit) - 1) = lit
    THEN <<i + Len(lit)>> ELSE << >>
\* (?:...)? around a piece whose continuations are ends: with it first, then without
Optional(ends, i) == ends \o <<i>>
\* the last index of the longest run of class characters from i (i - 1: no run)
RunEnd(s, class, i) ==
    CHOOSE e \in (i - 1)..Len(s) :
        /\ \A k \in i..e : s[k] \in class
        /\ e = Len(s) \/ s[e + 1] \notin class
\* [class]+ : greedy, the longest run first
Plus(s, class, i) ==
    LET e == RunEnd(s, class, i) IN [k \in 1..(e - i + 1) |-> e + 2 - k]
\* .*? : lazy, the shortest stretch first (the urls hold no newline)
LazyAny(s, i) == [k \in 1..(Len(s) + 2 - i) |-> i + k - 1]
\* the positions of s, the one after its last character included
Positions(s) == 1..(Len(s) + 1)
\* one piece after another: the continuations E[p] of each position p of P, in order
Then(P, E) ==
    LET f[k \in 0..Len(P)] == IF k = 0 THEN << >> ELSE f[k - 1] \o E[P[k]]
    IN  f[Len(P)]

S_video == <<"/", "v", "i", "d", "e", "o", "/">>
\* a literal, from each position
LitFrom(s, lit) == [p \in Positions(s) |-> Lit(s, lit, p)]
\* (?:https?://)?
Scheme(s, i) ==
    Optional(Then(Then(Lit(s, <<"h", "t", "t", "p">>, i),
                       [p \in Positions(s) |-> Optional(Lit(s, <<"s">>, p), p)]),
                  LitFrom(s, <<":", "/", "/">>)), i)
\* (?:www\.)?   and   (?:m\.)?  , from each position
OptionalHost(s, host) == [p \in Positions(s) |-> Optional(Lit(s, host, p), p)]
\* tiktok\.com/@[\w.-]+/video/  , from each position
UserVideo(s) ==
    [q \in Positions(s) |->
        Then(Then(Lit(s, S_tiktok \o <<"/", "@">>, q),
                  [p \in Positions(s) |-> Plus(s, UserChars, p)]),
             LitFrom(s, S_video))]

\* the patterns of extract_video_id, in list order: the positions its capture
\* group can start at when the match starts at i
NumPatterns == 6
GroupStarts(n, s, i) ==
    CASE n = 1 -> Then(Then(Scheme(s, i), OptionalHost(s, <<"w", "w", "w", ".">>)),
                       UserVideo(s))
      [] n = 2 -> Then(Then(Scheme(s, i),
                            [p \in Positions(s) |-> Lit(s, S_vm, p) \o Lit(s, S_vt, p)]),
                       LitFrom(s, <<"/">>))
      [] n = 3 -> Then(Then(Scheme(s, i), OptionalHost(s, <<"w", "w", "w", ".">>)),
                       LitFrom(s, S_t))
      [] n = 4 -> Then(Then(Scheme(s, i), OptionalHost(s, <<"m", ".">>)), UserVideo(s))
      [] n = 5 -> Then(Then(Lit(s, S_tiktok, i), [p \in Positions(s) |-> LazyAny(s, p)]),
                       LitFrom(s, S_video))
      [] n = 6 -> Lit(s, S_video, i)
\* (\d+) in patterns 1, 4, 5 and 6, (\w+) in patterns 2 and 3
GroupClass(n) == IF n \in {2, 3} THEN WordChars ELSE Digits

\* re.match of pattern n at position i: group 1, or None
MatchAt(n, s, i) ==
    LET starts == SelectSeq(GroupStarts(n, s, i),
                            LAMBDA p : RunEnd(s, GroupClass(n), p) >= p)
    IN  IF starts = << >> THEN None
        ELSE Str(SubSeq(s, starts[1], RunEnd(s, GroupClass(n), starts[1])))
\* re.search(pattern n, s): the match at the leftmost position that has one
Search(n, s) ==
    LET at == {i \in 1..(Len(s) + 1) : MatchAt(n, s, i) # None}
    IN  IF at = {} THEN None
        ELSE MatchAt(n, s, CHOOSE i \in at : \A j \in at : i <= j)

ChosenPatternLast(matching) == CHOOSE n \in matching : \A m \in matching : n >= m
\* which of the matching patterns answers: the first in list order
ChosenPattern(matching) == CHOOSE n \in matching : \A m \in matching : n <= m
\* TikTokAPI.extract_video_id
extract_video_id(url) ==
    LET matching == {n \in 1..NumPatterns : Search(n, url) # None}
    IN  IF matching = {} THEN None ELSE Search(ChosenPattern(matching), url)

\* test_api(): the whole handler
TestApi ==
    /\ Fresh
    /\ \E r \in Requests :
        /\ r.path = "/test"
        /\ request' = r
        /\ LET url == GetOr(r, "url", Str(UrlLong)).s
               video_id == extract_video_id(url)
           IN  /\ test_video_id' = video_id
               /\ \E head \in HeadResults :
                    /\ ~IsShortUrl(url) => ~head.ok
                    /\ contacted' = (IF IsShortUrl(url) THEN <<HeadContact>> ELSE << >>)
                                    \o api_endpoints
                    /\ response' = JsonResponse(200,
                           [test_url |-> url, video_id |-> video_id,
                            normalized_url |-> normalize_url(url, head),
                            headers_used |-> headers])
    /\ pc' = "done"
    /\ UNCHANGED config

(************************* generate() **************************************)
\* requests.get(media_url, stream=True); response.raise_for_status().
\* The handler has returned by now: only the media url it captured lives on.
StreamOpen ==
    /\ pc = "stream"
    /\ contacted' = Append(contacted, MediaContact)
    /\ \/ \* the connection or the status check raises: yield b''
          /\ sent' = Append(sent, << >>)
          /\ upstream' = << >>
          /\ pc' = "done"
       \/ \E body \in Bodies :
          /\ upstream' = body
          /\ sent' = sent
          /\ pc' = "relay"
    /\ normalized_url' = << >>
    /\ idx' = 0
    /\ lastResponse' = NoProviderResponse
    /\ video_info' = None
    /\ title' = None
    /\ safe_title' = None
    /\ UNCHANGED <<config, test_video_id, parked, request, media_url, response>>

StreamChunkTwice ==
    /\ pc = "relay"
    /\ upstream # << >>
    /\ sent' = IF Head(upstream) # << >>
               THEN Append(Append(sent, Head(upstream)), Head(upstream)) ELSE sent
    /\ upstream' = Tail(upstream)
    /\ UNCHANGED <<config, test_video_id, parked, pc, request, normalized_url, idx,
                   contacted, lastResponse, video_info, media_url, title, safe_title,
                   response>>
\* for chunk in response.iter_content(...): if chunk: yield chunk
StreamChunk ==
    /\ pc = "relay"
    /\ upstream # << >>
    /\ sent' = IF Head(upstream) # << >> THEN Append(sent, Head(upstream)) ELSE sent
    /\ upstream' = Tail(upstream)
    /\ UNCHANGED <<config, test_video_id, parked, pc, request, normalized_url, idx, contacted, lastResponse,
                   video_info, media_url, title, safe_title, response>>

\* iter_content raises in mid-stream: except Exception: yield b''
StreamFail ==
    /\ pc = "relay"
    /\ sent' = Append(sent, << >>)
    /\ pc' = "done"
    /\ UNCHANGED <<config, test_video_id, parked, request, normalized_url, idx, contacted, lastResponse,
                   video_info, media_url, title, safe_title, response, upstream>>

\* iter_content is exhausted: the generator returns
StreamEnd ==
    /\ pc = "relay"
    /\ upstream = << >>
    /\ pc' = "done"
    /\ UNCHANGED <<config, test_video_id, parked, request, normalized_url, idx, contacted, lastResponse,
                   video_info, media_url, title, safe_title, response, upstream, sent>>

TeardownDroppingEndpoint ==
    /\ pc = "done"
    /\ pc' = "idle"
    /\ request' = NoRequest
    /\ response' = NoResponse
    /\ contacted' = << >>
    /\ normalized_url' = << >>
    /\ idx' = 0
    /\ lastResponse' = NoProviderResponse
    /\ video_info' = None
    /\ media_url' = None
    /\ title' = None
    /\ safe_title' = None
    /\ upstream' = << >>
    /\ sent' = << >>
    /\ test_video_id' = None
    /\ api_endpoints' = IF lastResponse = NoProviderResponse \/ Len(api_endpoints) < 2
                        THEN api_endpoints ELSE Tail(api_endpoints)
    /\ UNCHANGED <<headers, parked>>
\* app.run(): the request is over, its context is dropped, and the server
\* waits for the next one
Teardown ==
    /\ pc = "done"
    /\ pc' = "idle"
    /\ request' = NoRequest
    /\ response' = NoResponse
    /\ contacted' = << >>
    /\ normalized_url' = << >>
    /\ idx' = 0
    /\ lastResponse' = NoProviderResponse
    /\ video_info' = None
    /\ media_url' = None
    /\ title' = None
    /\ safe_title' = None
    /\ upstream' = << >>
    /\ sent' = << >>
    /\ test_video_id' = None
    /\ UNCHANGED <<config, parked>>

Next ==
    \/ Home
    \/ NotFound
    \/ TestApi
    \/ GetInfoEntry
    \/ DownloadVideoEntry
    \/ DownloadAudioEntry
    \/ DownloadThumbnailEntry
    \/ GetThumbnailsEntry
    \/ NormalizeUrl
    \/ TryEndpoint
    \/ TryAlternative
    \/ GetInfoFinish
    \/ GetThumbnailsFinish
    \/ DownloadVideoFinish
    \/ DownloadAudioFinish
    \/ DownloadThumbnailFinish
    \/ StreamOpen
    \/ StreamChunk
    \/ StreamFail
    \/ StreamEnd
    \/ Teardown

Spec == Init /\ [][Next]_vars

(************************* sanitize_filename alone **************************)
SanAlphabet == {"a", "_", "/", "?"}
Run(c, n) == [i \in 1..n |-> c]
\* the titles sanitize_filename is applied to
SanitizeInputs ==
    SeqsUpTo(SanAlphabet, MaxTitleLen)
    \cup {<<c>> : c \in InvalidCharSet}
    \cup {Run(c, n) : c \in {"a", "/"}, n \in (MaxNameLen - 1)..(MaxNameLen + MaxPad)}

SanitizeInit ==
    /\ api_endpoints = <<"https://tikwm.com/api/", "https://www.tikwm.com/api/",
                         "https://api.tikwm.com/api/">>
    /\ headers = [User_Agent |-> "Mozilla/5.0"]
    /\ pc = "sanitize"
    /\ request = NoRequest
    /\ normalized_url = << >>
    /\ idx = 0
    /\ contacted = << >>
    /\ lastResponse = NoProviderResponse
    /\ video_info = None
    /\ media_url = None
    /\ title \in {Str(s) : s \in SanitizeInputs}
    /\ safe_title = None
    /\ response = NoResponse
    /\ upstream = << >>
    /\ sent = << >>
    /\ test_video_id = None
    /\ parked = IdleContext

\* safe_title = tiktok_api.sanitize_filename(title)
SanitizeCall ==
    /\ pc = "sanitize"
    /\ safe_title' = Str(sanitize_filename(title.s))
    /\ pc' = "sanitized"
    /\ UNCHANGED <<config, test_video_id, parked, request, normalized_url, idx, contacted, lastResponse,
                   video_info, media_url, title, response, upstream, sent>>

SanitizeNext == SanitizeCall

SanitizeSpec == SanitizeInit /\ [][SanitizeNext]_vars

(************************* extract_video_id alone ***************************)
H_www == <<"w", "w", "w", ".">> \o S_tiktok
H_m == <<"m", ".">> \o S_tiktok
H_example == <<"e", "x", "a", "m", "p", "l", "e", ".", "c", "o", "m">>
P_user_video == <<"/", "@", "u", ".", "s", "-", "r", "/", "v", "i", "d", "e", "o", "/", "7", "0">>
P_user_video_query == <<"/", "@", "u", "!", "/", "v", "i", "d", "e", "o", "/", "7", "0", "?", "a", "=", "1">>
P_user_video_no_id == <<"/", "@", "u", "/", "v", "i", "d", "e", "o", "/">>
P_user_photo == <<"/", "@", "u", "/", "p", "h", "o", "t", "o", "/", "7", "0">>
P_t == <<"/", "t", "/", "Z", "x", "9">>
P_code == <<"/", "Z", "x", "_", "9", "/">>
P_video == <<"/", "v", "i", "d", "e", "o", "/", "7", "0">>
P_code_video == <<"/", "Z", "x", "/", "v", "i", "d", "e", "o", "/", "7", "0">>
ExtractSchemes == {<< >>, S_http, S_https}
ExtractHosts == {H_www, H_m, S_tiktok, S_vm, S_vt, H_example}
ExtractPaths == {P_user_video, P_user_video_query, P_user_video_no_id, P_user_photo,
                 P_t, P_code, P_video, P_code_video, << >>}
\* the urls extract_video_id is applied to
ExtractInputs == {sch \o h \o p : sch \in ExtractSchemes, h \in ExtractHosts, p \in ExtractPaths}

ExtractInit ==
    /\ api_endpoints = <<"https://tikwm.com/api/", "https://www.tikwm.com/api/",
                         "https://api.tikwm.com/api/">>
    /\ headers = [User_Agent |-> "Mozilla/5.0"]
    /\ pc = "extract"
    /\ request \in {[path |-> "/test", url |-> Str(u), quality |-> Absent] : u \in ExtractInputs}
    /\ normalized_url = << >>
    /\ idx = 0
    /\ contacted = << >>
    /\ lastResponse = NoProviderResponse
    /\ video_info = None
    /\ media_url = None
    /\ title = None
    /\ safe_title = None
    /\ response = NoResponse
    /\ upstream = << >>
    /\ sent = << >>
    /\ test_video_id = None
    /\ parked = IdleContext

\* video_id = tiktok_api.extract_video_id(url)
ExtractCall ==
    /\ pc = "extract"
    /\ test_video_id' = extract_video_id(request.url.s)
    /\ pc' = "extracted"
    /\ UNCHANGED <<config, parked, request, locals, response>>

ExtractNext == ExtractCall

ExtractSpec == ExtractInit /\ [][ExtractNext]_vars

(************************* two requests at a time ***************************)
\* app.run() serves each request on a thread of its own: a second request is
\* handled while the first is in progress. Each thread has its own handler
\* locals; tiktok_api is the one object they share.
Context ==
    [pc |-> pc, request |-> request, normalized_url |-> normalized_url, idx |-> idx,
     contacted |-> contacted, lastResponse |-> lastResponse, video_info |-> video_info,
     media_url |-> media_url, title |-> title, safe_title |-> safe_title,
     response |-> response, upstream |-> upstream, sent |-> sent,
     test_video_id |-> test_video_id]

\* the scheduler leaves the running thread where it stands and runs the other
ContextSwitch ==
    /\ parked # Context
    /\ parked' = Context
    /\ pc' = parked.pc
    /\ request' = parked.request
    /\ normalized_url' = parked.normalized_url
    /\ idx' = parked.idx
    /\ contacted' = parked.contacted
    /\ lastResponse' = parked.lastResponse
    /\ video_info' = parked.video_info
    /\ media_url' = parked.media_url
    /\ title' = parked.title
    /\ safe_title' = parked.safe_title
    /\ response' = parked.response
    /\ upstream' = parked.upstream
    /\ sent' = parked.sent
    /\ test_video_id' = parked.test_video_id
    /\ UNCHANGED config

\* the requests and the upstream answers of the two threads
ConcRequests ==
    {r \in Requests : r.path # "/favicon.ico" /\ r.url \in {Absent, Str(UrlLong)}
                      /\ r.quality = Absent}
ConcProviderResponses ==
    {NoProviderResponse, [kind |-> "transport_error"],
     [kind |-> "json", code |-> 0, data |-> FullPayload],
     [kind |-> "json", code |-> 0, data |-> [FullPayload EXCEPT !.title = None]],
     [kind |-> "json", status_code |-> 200, success |-> TRUE, data |-> FullAltData]}
ConcBodies == {<< >>, <<<<"a">>>>}
ConcInputs ==
    /\ request \in ConcRequests \cup {NoRequest}
    /\ lastResponse \in ConcProviderResponses
    /\ upstream \in ConcBodies

ConcNext ==
    \/ Home /\ ConcInputs'
    \/ NotFound /\ ConcInputs'
    \/ TestApi /\ ConcInputs'
    \/ GetInfoEntry /\ ConcInputs'
    \/ DownloadVideoEntry /\ ConcInputs'
    \/ DownloadAudioEntry /\ ConcInputs'
    \/ DownloadThumbnailEntry /\ ConcInputs'
    \/ GetThumbnailsEntry /\ ConcInputs'
    \/ NormalizeUrl /\ ConcInputs'
    \/ TryEndpoint /\ ConcInputs'
    \/ TryAlternative /\ ConcInputs'
    \/ GetInfoFinish /\ ConcInputs'
    \/ GetThumbnailsFinish /\ ConcInputs'
    \/ DownloadVideoFinish /\ ConcInputs'
    \/ DownloadAudioFinish /\ ConcInputs'
    \/ DownloadThumbnailFinish /\ ConcInputs'
    \/ StreamOpen /\ ConcInputs'
    \/ StreamChunk /\ ConcInputs'
    \/ StreamFail /\ ConcInputs'
    \/ StreamEnd /\ ConcInputs'
    \/ Teardown /\ ConcInputs'
    \/ ContextSwitch /\ ConcInputs'

ConcSpec == Init /\ [][ConcNext]_vars

(***************************** claims **************************************)
\* the provider requests among the network requests sent for the request
Providers(c) == SelectSeq(c, LAMBDA x : x \notin {HeadContact, MediaContact})
IsPrefix(a, b) == Len(a) <= Len(b) /\ SubSeq(b, 1, Len(a)) = a
IsJsonError(resp, status) ==
    /\ resp.status = status
    /\ resp.mimetype = "application/json"
    /\ {"error", "message"} \subseteq DOMAIN resp.body
UrlGiven(r) == r.url \notin {Absent, Str(<< >>)}
NoDataField(d) == d \in {Absent, None, Str(<< >>), EmptyPayload}

\* C1: on each of the five url routes a request whose url parameter is missing
\* or empty ends with status 400, a JSON body holding error and message, and
\* no network request sent.
C1_MissingUrlRejected ==
    (request.path \in UrlRoutes /\ ~UrlGiven(request))
        => /\ pc = "done"
           /\ IsJsonError(response, 400)
           /\ contacted = << >>
C1_Witness ==
    /\ request.path = "/download/thumbnail"
    /\ request.url = Str(<< >>)
    /\ request.quality # Absent
    /\ response.status = 400

\* the failures C2 lists: transport error, HTTP error status, malformed JSON,
\* a JSON code other than 0
ListedFailure(resp) ==
    \/ resp.kind \in {"transport_error", "http_error", "malformed_json"}
    \/ resp.kind = "json" /\ resp.code # 0
\* ... and the one it leaves out: code 0 with the data field missing or empty
EmptyDataFailure(resp) ==
    resp.kind = "json" /\ resp.code = 0 /\ NoDataField(resp.data)
\* the providers are contacted in the order of api_endpoints, then alt_api,
\* none twice and none skipped
C2_Order == IsPrefix(Providers(contacted), api_endpoints \o <<alt_api>>)
FurtherContact ==
    /\ Len(Providers(contacted)) >= 1
    /\ Len(Providers(contacted')) > Len(Providers(contacted))

\* C2 as stated: providers are contacted in configured order, each at most
\* once, the alternate last and once, and a further provider is contacted only
\* after the previous one failed in one of the four listed ways.
C2_AsStated ==
    /\ [](C2_Order)
    /\ [][FurtherContact => ListedFailure(lastResponse)]_vars

\* C2 amended: as stated, the failures being the four listed ones or a JSON
\* code 0 whose data field is missing or empty.
C2_FallbackOrder ==
    /\ [](C2_Order)
    /\ [][FurtherContact =>
            (ListedFailure(lastResponse) \/ EmptyDataFailure(lastResponse))]_vars
C2_Witness ==
    /\ Providers(contacted) = api_endpoints \o <<alt_api>>
    /\ pc = "got"

PrimarySuccess(resp) ==
    resp.kind = "json" /\ resp.code = 0 /\ ~NoDataField(resp.data)
AltReportsSuccess(resp) ==
    resp.kind = "json" /\ resp.status_code = 200 /\ resp.success = TRUE
\* the data of an alternate response that format_alternative_data can map:
\* absent, or an object whose author and stats are absent or objects
AltData(resp) == IF resp.data = Absent THEN EmptyAltData ELSE resp.data
Mappable(resp) ==
    /\ resp.data # None
    /\ resp.data = Absent \/ (resp.data.author # None /\ resp.data.stats # None)

C3_PrimaryStep ==
    pc = "try" =>
        IF PrimarySuccess(lastResponse')
        THEN pc' = "got" /\ video_info' = lastResponse'.data
        ELSE pc' \in {"try", "alt"} /\ video_info' = None
C3_NothingAfterReturn ==
    pc = "got" => IsPrefix(Providers(contacted'), Providers(contacted))

\* C3 as stated: the payload of the first successful endpoint is returned and
\* nothing is contacted after it; with no successful endpoint the alternate
\* provider's mapped payload is returned when it reports success, else None.
C3_AsStated ==
    [][/\ C3_PrimaryStep
       /\ C3_NothingAfterReturn
       /\ pc = "alt" =>
            /\ pc' = "got"
            /\ IF AltReportsSuccess(lastResponse')
               THEN video_info'.t = "dict"
               ELSE video_info' = None]_vars

\* C3 amended: ... the alternate provider's mapped payload is returned when it
\* reports success and its data can be mapped without an exception, else None.
C3_FirstSuccess ==
    [][/\ C3_PrimaryStep
       /\ C3_NothingAfterReturn
       /\ pc = "alt" =>
            /\ pc' = "got"
            /\ IF AltReportsSuccess(lastResponse') /\ Mappable(lastResponse')
               THEN video_info' = format_alternative_data(AltData(lastResponse'))
               ELSE video_info' = None]_vars
C3_Witness ==
    /\ pc = "got"
    /\ Len(Providers(contacted)) = 2
    /\ video_info = FullPayload

\* C4: on each url route, when every endpoint and the alternate provider
\* failed, the response is 404 with a JSON body holding error and message, and
\* no media stream is opened.
AllProvidersFailed ==
    /\ Providers(contacted) = api_endpoints \o <<alt_api>>
    /\ lastResponse.kind # "none"
    /\ ~AltReportsSuccess(lastResponse)
C4_AllFailed404 ==
    (request.path \in UrlRoutes /\ AllProvidersFailed)
        => /\ pc \in {"got", "done"}
           /\ pc = "done" => IsJsonError(response, 404)
           /\ MediaContact \notin {contacted[i] : i \in 1..Len(contacted)}
C4_Witness ==
    /\ request.path = "/download/audio"
    /\ AllProvidersFailed
    /\ pc = "done"
    /\ response.status = 404

DownloadRoutes == {"/download/video", "/download/audio", "/download/thumbnail"}
ContactedSet == {contacted[i] : i \in 1..Len(contacted)}
\* the thumbnail field a quality parameter stands for, by the values sent
ExpectedThumbnailField(q) ==
    IF q = Str(<<"M", "e", "d", "i", "u", "m">>) THEN "origin_cover"
    ELSE IF q = Str(<<"L", "O", "W">>) THEN "dynamic_cover"
    ELSE "cover"
\* the payload field a download route streams
RequestedField(r) ==
    IF r.path = "/download/video" THEN "play"
    ELSE IF r.path = "/download/audio" THEN "music"
    ELSE ExpectedThumbnailField(r.quality)
LookupSucceeded == video_info.t = "dict"

\* C5: when the lookup succeeded and the payload's media url for the requested
\* download is absent, null or empty, the download route answers 404 with a
\* JSON error body and never opens a connection to a media url.
C5_NoMedia404 ==
    (/\ request.path \in DownloadRoutes
     /\ pc \in {"done", "stream", "relay"}
     /\ LookupSucceeded
     /\ video_info[RequestedField(request)] \in Falsy)
        => /\ pc = "done"
           /\ IsJsonError(response, 404)
           /\ MediaContact \notin ContactedSet
C5_Witness ==
    /\ request.path = "/download/thumbnail"
    /\ request.quality = Str(<<"L", "O", "W">>)
    /\ pc = "done"
    /\ LookupSucceeded
    /\ video_info.dynamic_cover = Str(<< >>)
    /\ video_info.cover = FullPayload.cover
    /\ response.status = 404

\* C6: sanitize_filename returns a string with none of < > : " / \ | ? *, of
\* length at most 100 and at least 1.
C6_SanitizedNameValid ==
    pc = "sanitized" =>
        /\ \A i \in 1..Len(safe_title.s) : safe_title.s[i] \notin InvalidCharSet
        /\ Len(safe_title.s) <= 100
        /\ Len(safe_title.s) >= 1

\* C7: on /download/thumbnail the quality, compared case-insensitively, picks
\* exactly one payload field as the streamed url: high cover, medium
\* origin_cover, low dynamic_cover, absent or anything else cover; an empty
\* selected field is not replaced by another field.
C7_QualitySelectsField ==
    (/\ request.path = "/download/thumbnail"
     /\ pc \in {"done", "stream"}
     /\ LookupSucceeded)
        => IF video_info[ExpectedThumbnailField(request.quality)] \in Falsy
           THEN pc = "done" /\ response.status = 404 /\ MediaContact \notin ContactedSet
           ELSE media_url = video_info[ExpectedThumbnailField(request.quality)]
C7_Witness ==
    /\ request.path = "/download/thumbnail"
    /\ request.quality = Str(<<"M", "e", "d", "i", "u", "m">>)
    /\ pc = "stream"
    /\ media_url = FullPayload.origin_cover
    /\ video_info.cover = None

\* C8: on /info with a successful lookup, the mapped response's has_video is
\* true iff the payload's play is present, non-null and non-empty, and
\* has_audio is true iff its music is.
C8_PresenceFlags ==
    (request.path = "/info" /\ pc = "done" /\ response.status = 200)
        => /\ response.body.data.has_video <=> video_info.play \notin Falsy
           /\ response.body.data.has_audio <=> video_info.music \notin Falsy
C8_Witness ==
    /\ request.path = "/info"
    /\ pc = "done"
    /\ response.status = 200
    /\ video_info.play = Str(<< >>)
    /\ ~response.body.data.has_video
    /\ response.body.data.has_audio

\* C9: GET /health is answered by a liveness route of its own with a success
\* status and a JSON liveness body, whatever the providers do.
C9_HealthAnswers ==
    (request.path = "/health" /\ pc = "done")
        => /\ "/health" \in RegisteredRoutes
           /\ response.status = 200
           /\ response.mimetype = "application/json"

\* C10: every url route rejects a url that is present but does not contain
\* tiktok.com with status 400, before any provider is contacted; such a
\* request never yields 404 or 200.
C10_NonTikTokRejected ==
    (/\ request.path \in UrlRoutes
     /\ UrlGiven(request)
     /\ ~Contains(request.url.s, S_tiktok))
        => /\ contacted = << >>
           /\ pc = "done" => response.status = 400

\* the identifier expected for host h followed by path p, after any scheme
ExpectedId(h, p) ==
    CASE p \in {P_user_video, P_user_video_query} -> Str(<<"7", "0">>)
      [] p \in {P_user_video_no_id, P_user_photo, << >>} -> None
      [] p = P_t -> IF h \in {S_vm, S_vt} THEN Str(<<"t">>)
                    ELSE IF h = H_example THEN None ELSE Str(<<"Z", "x", "9">>)
      [] p = P_code -> IF h \in {S_vm, S_vt} THEN Str(<<"Z", "x", "_", "9">>) ELSE None
      [] p = P_video -> IF h \in {S_vm, S_vt} THEN Str(<<"v", "i", "d", "e", "o">>)
                        ELSE Str(<<"7", "0">>)
      [] p = P_code_video -> IF h \in {S_vm, S_vt} THEN Str(<<"Z", "x">>)
                             ELSE Str(<<"7", "0">>)

\* C11: extract_video_id answers capture group 1 of the first pattern, in list
\* order, that matches anywhere in the url, and None when no pattern matches;
\* for the urls of each known shape that is the expected identifier.
C11_FirstPatternGroup ==
    pc = "extracted" =>
        LET url == request.url.s
        IN  /\ \A n \in 1..NumPatterns :
                (Search(n, url) # None /\ \A m \in 1..(n - 1) : Search(m, url) = None)
                    => test_video_id = Search(n, url)
            /\ (\A n \in 1..NumPatterns : Search(n, url) = None) => test_video_id = None
            /\ \A sch \in ExtractSchemes, h \in ExtractHosts, p \in ExtractPaths :
                url = sch \o h \o p => test_video_id = ExpectedId(h, p)
\* two patterns match with different groups, and the earlier one has answered
C11_Witness ==
    /\ pc = "extracted"
    /\ \E n, m \in 1..NumPatterns :
        /\ n < m
        /\ Search(n, request.url.s) # None
        /\ Search(m, request.url.s) # None
        /\ Search(n, request.url.s) # Search(m, request.url.s)
        /\ test_video_id = Search(n, request.url.s)

\* the chunks the caller has received, and those the connection holds that the
\* relay would forward
Forwarded == SelectSeq(sent, LAMBDA c : c # << >>)
Undelivered == SelectSeq(upstream, LAMBDA c : c # << >>)
\* the generator ends on the except branch: on open, on the status check, or in
\* the middle of the stream
RelayFails == pc \in {"stream", "relay"} /\ pc' = "done" /\ sent' # sent
\* the Response is built, with status 200 and its headers, before the media
\* connection is opened
C12_HeadersFirst ==
    /\ pc = "stream" =>
        /\ request.path \in DownloadRoutes
        /\ Truthy(media_url)
        /\ MediaContact \notin ContactedSet
    /\ (pc \in {"stream", "relay"} \/ MediaContact \in ContactedSet) =>
        /\ response.status = 200
        /\ response.body = "stream"
        /\ {"mimetype", "filename"} \subseteq DOMAIN response
\* one step of the relay: nothing but the next chunk of the upstream reaches
\* the caller, once, and the response that was started stays as it is
C12_RelayStep ==
    /\ pc \in {"stream", "relay"} => response' = response
    /\ pc = "stream" =>
        /\ pc' \in {"relay", "done"}
        /\ MediaContact \in {contacted'[i] : i \in 1..Len(contacted')}
        /\ Forwarded' = << >>
    /\ (pc = "relay" /\ pc' = "relay") =>
        /\ upstream # << >>
        /\ upstream' = Tail(upstream)
        /\ Forwarded' = Forwarded \o (IF Head(upstream) # << >> THEN <<Head(upstream)>>
                                      ELSE << >>)
    /\ (pc = "relay" /\ pc' = "done") =>
        /\ Forwarded' = Forwarded
        /\ upstream' = upstream
        /\ ~RelayFails => Undelivered = << >>
    /\ RelayFails => response'.status = 200

\* C12 as stated: on each download route the status 200 and the headers are
\* fixed before the media connection is opened; the relay forwards the
\* upstream's non-empty chunks in order, unmodified and once each; when the
\* media request fails, on open or in mid-stream, the stream ends after the
\* chunks already forwarded, which are a strict prefix of the upstream body,
\* and no error status or error body is sent.
C12_AsStated ==
    /\ [](C12_HeadersFirst)
    /\ [][/\ C12_RelayStep
          /\ (RelayFails /\ pc = "relay") => Undelivered # << >>]_vars

\* C12 amended: as stated, the chunks already forwarded being a prefix of the
\* upstream body that is the whole body when the failure comes after the last
\* non-empty chunk.
C12_SilentPrefixRelay ==
    /\ [](C12_HeadersFirst)
    /\ [][/\ C12_RelayStep
          /\ (RelayFails /\ pc = "relay") =>
                IsPrefix(Forwarded', Forwarded \o Undelivered)]_vars
\* the media request has failed in mid-stream after a chunk was forwarded and
\* with a chunk still to come; the caller holds a 200 response
C12_Witness ==
    /\ pc = "done"
    /\ Forwarded # << >>
    /\ sent[Len(sent)] = << >>
    /\ Undelivered # << >>
    /\ response.status = 200

\* a request that has its response, and whose last provider answer is still at hand
Answered(c) ==
    /\ c.pc \in {"done", "stream"}
    /\ \A i \in 1..Len(c.contacted) : c.contacted[i] # MediaContact
\* the shared TikTokAPI object is as __init__ left it
C13_ConfigFixed ==
    /\ api_endpoints = <<"https://tikwm.com/api/", "https://www.tikwm.com/api/",
                         "https://api.tikwm.com/api/">>
    /\ headers = [User_Agent |-> "Mozilla/5.0"]
\* two requests with the same parameters that were given the same upstream
\* answer have the same response, whatever ran before or between their steps
C13_SameInSameOut ==
    (/\ Answered(Context)
     /\ Answered(parked)
     /\ request = parked.request
     /\ lastResponse = parked.lastResponse) => response = parked.response

\* C13: no request, on any route and with any outcome, changes the shared
\* TikTokAPI configuration (the endpoint list, its order, the headers); under
\* any interleaving of two requests the response to a request depends only on
\* its parameters and on the upstream answers it received.
C13_Stateless == C13_ConfigFixed /\ C13_SameInSameOut
\* two requests with the same parameters are held at the same time, one
\* answered after fewer endpoint failures than the other, both with the same
\* final answer and a 200 response
C13_Witness ==
    /\ pc = "done"
    /\ parked.pc = "done"
    /\ request = parked.request
    /\ request.path = "/info"
    /\ response.status = 200
    /\ lastResponse = parked.lastResponse
    /\ Len(contacted) < Len(parked.contacted)

====
